---- MODULE Spec2Model ----
(***************************************************************************)
(* A model of pr-nat-type: the NAT classifier judgeNatType and the         *)
(* orchestrator getNatType with its two STUN exchanges (getCandidateInfo)  *)
(* of src/src/getNatType.ts.                                               *)
(*                                                                         *)
(* The specifications share the definitions:                                *)
(*   JudgeSpec  draws the two arguments of judgeNatType from bounded sets  *)
(*              and applies the classifier to them;                        *)
(*   Spec       runs getNatType: the async function, the two promises of   *)
(*              getCandidateInfo, their timers, negotiations and           *)
(*              candidate events (FairSpec adds the event loop's fairness);*)
(*   LegacySpec applies the earlier classifier of src/unnamed/part_000 to  *)
(*              every pair of bounded candidate lists.                     *)
(***************************************************************************)
EXTENDS Naturals, Sequences, FiniteSets, TLC

VARIABLES
    info_1,         \* judgeNatType's first argument (JudgeSpec)
    info_2,         \* judgeNatType's second argument (JudgeSpec)
    natType,        \* what judgeNatType returned for them, "none" before the call
    pc,             \* position of the async function getNatType
    info1,          \* getNatType's const info1, once the first await resumed
    info2,          \* getNatType's const info2, once the second await resumed
    result,         \* the promise getNatType returns
    conn,           \* conn[i]: the RTCPeerConnection of exchange i
    promise,        \* promise[i]: the promise getCandidateInfo returned for exchange i
    timer,          \* timer[i]: the setTimeout of exchange i
    nego,           \* nego[i]: the createOffer/setLocalDescription chain of exchange i
    events,         \* events[i]: number of icecandidate events delivered to exchange i
    firstSrflx,     \* firstSrflx[i]: history, the first srflx candidate delivered to exchange i
    candidates_1,   \* the earlier judgeNatType's first argument (LegacySpec)
    candidates_2,   \* the earlier judgeNatType's second argument (LegacySpec)
    legacyNatType   \* what the earlier judgeNatType returned for them, "none" before the call

judgeVars == <<info_1, info_2, natType>>
legacyVars == <<candidates_1, candidates_2, legacyNatType>>
asyncVars == <<pc, info1, info2, result, conn, promise, timer, nego, events, firstSrflx>>
vars == <<info_1, info_2, natType, pc, info1, info2, result, conn, promise, timer, nego,
          events, firstSrflx, candidates_1, candidates_2, legacyNatType>>

(***************************************************************************)
(* Bounds of the model.                                                    *)
(***************************************************************************)
NumIps == 3        \* how many distinct addresses the inputs are drawn from
NumPorts == 2      \* how many distinct port numbers the inputs are drawn from
MaxEvents == 2     \* icecandidate events delivered to one exchange

(***************************************************************************)
(* JavaScript values.  A string is a TLA+ string; undefined and null are   *)
(* values of their own, distinct from every string the program handles.    *)
(***************************************************************************)
UNDEFINED == "<undefined>"
NULL == [null |-> TRUE]

IpList == <<"203.0.113.7", "198.51.100.9", "192.0.2.33", "100.64.0.5">>
PortList == <<5000, 6001, 3478, 19302>>

Ips == {IpList[i] : i \in 1..NumIps}
PortNumbers == {PortList[i] : i \in 1..NumPorts}

Digit == <<"0", "1", "2", "3", "4", "5", "6", "7", "8", "9">>

\* Number.prototype.toString() of a non-negative integer: its decimal digits.
RECURSIVE toString(_)
toString(n) ==
    IF n < 10 THEN Digit[n + 1]
    ELSE toString(n \div 10) \o Digit[(n % 10) + 1]

PortStrings == {toString(p) : p \in PortNumbers}

\* JavaScript truthiness of an optional string: undefined and '' are falsy.
Falsy(v) == v \in {UNDEFINED, ""}

\* info?.field : undefined when info is null (or undefined), else the field.
OptChain(info, f) == IF info = NULL THEN UNDEFINED ELSE info[f]

(***************************************************************************)
(* judgeNatType (src/src/getNatType.ts:16-52)                              *)
(***************************************************************************)
InvalidNoServePort(a, b) ==
    \/ Falsy(OptChain(a, "ip")) \/ Falsy(OptChain(a, "port"))
    \/ Falsy(OptChain(a, "serve_ip"))
    \/ Falsy(OptChain(b, "ip")) \/ Falsy(OptChain(b, "port"))
    \/ Falsy(OptChain(b, "serve_ip"))

\* line 17: the guard that returns 'Unknown'
Invalid(a, b) ==
    \/ Falsy(OptChain(a, "ip")) \/ Falsy(OptChain(a, "port"))
    \/ Falsy(OptChain(a, "serve_ip")) \/ Falsy(OptChain(a, "serve_port"))
    \/ Falsy(OptChain(b, "ip")) \/ Falsy(OptChain(b, "port"))
    \/ Falsy(OptChain(b, "serve_ip")) \/ Falsy(OptChain(b, "serve_port"))

IsFullConeDistinctTargets(a, b) ==
    a.ip = b.ip /\ a.port = b.port /\ a.serve_ip # b.serve_ip

\* line 28
IsFullCone(a, b) == a.ip = b.ip /\ a.port = b.port

IsIpFixedCrossTarget(a, b) ==
    a.ip = b.serve_ip /\ (b.ip # a.serve_ip \/ b.port # a.port)

\* line 35
isIpFixedWithTarget1(a, b) ==
    a.ip = a.serve_ip /\ (b.ip # a.serve_ip \/ b.port # a.port)

IsIpFixedWithTarget2CopyPaste(a, b) ==
    b.ip = a.serve_ip /\ (a.ip # b.serve_ip \/ a.port # b.port)

\* line 36
isIpFixedWithTarget2(a, b) ==
    b.ip = b.serve_ip /\ (a.ip # b.serve_ip \/ a.port # b.port)

\* line 43
isPortFixedWithTarget1(a, b) ==
    a.ip = a.serve_ip /\ a.port = a.serve_port
        /\ (b.ip # a.serve_ip \/ b.port # a.serve_port)

\* line 44
isPortFixedWithTarget2(a, b) ==
    b.ip = b.serve_ip /\ b.port = b.serve_port
        /\ (a.ip # b.serve_ip \/ a.port # b.serve_port)

judgeNatTypeFirstOnly(a, b) ==
    IF Invalid(a, b) THEN "Unknown"
    ELSE IF IsFullCone(a, b) THEN "Full Cone"
    ELSE IF isIpFixedWithTarget1(a, b) THEN "Restricted Cone"
    ELSE IF isPortFixedWithTarget1(a, b) \/ isPortFixedWithTarget2(a, b)
         THEN "Port Restricted Cone"
    ELSE "Symmetric"

judgeNatType(a, b) ==
    IF Invalid(a, b) THEN "Unknown"
    ELSE IF IsFullCone(a, b) THEN "Full Cone"
    ELSE IF isIpFixedWithTarget1(a, b) \/ isIpFixedWithTarget2(a, b)
         THEN "Restricted Cone"
    ELSE IF isPortFixedWithTarget1(a, b) \/ isPortFixedWithTarget2(a, b)
         THEN "Port Restricted Cone"
    ELSE "Symmetric"

(***************************************************************************)
(* The arguments judgeNatType is applied to in JudgeSpec: null, or a       *)
(* CandidateInfo whose four optional string fields are each absent, empty  *)
(* or one of the bounded values.  Public and target addresses are drawn    *)
(* from the same set, and so are public and target ports, so that every    *)
(* equality the classifier tests can come out either way.                  *)
(***************************************************************************)
IpField == Ips \cup {UNDEFINED, ""}
PortField == PortStrings \cup {UNDEFINED, ""}

CandidateInfo == [ip : IpField, port : PortField, serve_ip : IpField, serve_port : PortField]

JudgeInputs == CandidateInfo \cup {NULL}

Valid(i) ==
    /\ i # NULL
    /\ ~Falsy(i.ip) /\ ~Falsy(i.port) /\ ~Falsy(i.serve_ip) /\ ~Falsy(i.serve_port)

(***************************************************************************)
(* JudgeSpec: judgeNatType applied to every pair of bounded arguments.     *)
(***************************************************************************)
Exchanges == {1, 2}

PENDING == [state |-> "pending"]
REJECTED == [state |-> "rejected"]
NOPROMISE == [state |-> "none"]
Fulfilled(v) == [state |-> "fulfilled", value |-> v]

Settled(p) == p.state \in {"fulfilled", "rejected"}

\* the state of getNatType before it is called
AsyncInit ==
    /\ pc = "start"
    /\ info1 = NULL
    /\ info2 = NULL
    /\ result = PENDING
    /\ conn = [i \in Exchanges |-> "none"]
    /\ promise = [i \in Exchanges |-> NOPROMISE]
    /\ timer = [i \in Exchanges |-> "unset"]
    /\ nego = [i \in Exchanges |-> "none"]
    /\ events = [i \in Exchanges |-> 0]
    /\ firstSrflx = [i \in Exchanges |-> NULL]

\* the earlier classifier before it is called
LegacyIdle ==
    /\ candidates_1 = <<>>
    /\ candidates_2 = <<>>
    /\ legacyNatType = "none"

JudgeInit ==
    /\ info_1 \in JudgeInputs
    /\ info_2 \in JudgeInputs
    /\ natType = "none"
    /\ AsyncInit
    /\ LegacyIdle

\* one call judgeNatType(info_1, info_2)
Judge ==
    /\ natType = "none"
    /\ natType' = judgeNatType(info_1, info_2)
    /\ UNCHANGED <<info_1, info_2>>
    /\ UNCHANGED <<asyncVars, legacyVars>>

JudgeNext == Judge

JudgeSpec == JudgeInit /\ [][JudgeNext]_vars

(***************************************************************************)
(* Claims about judgeNatType, checked under JudgeSpec.                     *)
(***************************************************************************)
Judged == natType # "none"

BothValid == Valid(info_1) /\ Valid(info_2)

SameEndpoint(a, b) == a.ip = b.ip /\ a.port = b.port

\* C1: whenever both observations are valid and their public endpoints are
\* identical (same public IP, same public port), the classifier returns
\* 'Full Cone', whatever the targets are.
C1_FullCone ==
    (Judged /\ BothValid /\ SameEndpoint(info_1, info_2)) => natType = "Full Cone"

\* a Full Cone verdict where the public IP/port equal the observation's own
\* target and the two targets are equal: the inputs of rules 2 and 3
C1_Witness ==
    /\ natType = "Full Cone"
    /\ BothValid
    /\ info_1.ip = info_1.serve_ip /\ info_1.port = info_1.serve_port
    /\ info_1.serve_ip = info_2.serve_ip /\ info_1.serve_port = info_2.serve_port

\* C2: if either argument is null, or any of the four fields of either
\* observation is absent or empty, the classifier returns 'Unknown',
\* whatever the other observation holds.
C2_UnknownOnBadInput ==
    (Judged /\ ~BothValid) => natType = "Unknown"

\* only the target port of the second observation is missing, and everything
\* else matches the Full Cone rule
C2_Witness ==
    /\ natType = "Unknown"
    /\ Valid(info_1)
    /\ info_2 # NULL
    /\ info_2.serve_port = UNDEFINED
    /\ info_2.ip = info_1.ip /\ info_2.port = info_1.port
    /\ ~Falsy(info_2.serve_ip)

NatClasses == {"Full Cone", "Restricted Cone", "Port Restricted Cone", "Symmetric"}

ValidInputs == {i \in CandidateInfo : Valid(i)}

\* the condition under which the claim expects 'Port Restricted Cone': self's
\* public IP and port equal its own target, other's endpoint differs from
\* that target in IP or port
PortFixedCase(self, other) ==
    /\ self.ip = self.serve_ip /\ self.port = self.serve_port
    /\ (other.ip # self.serve_ip \/ other.port # self.serve_port)

\* C3: each of the four classes is returned for some valid pair, and
\* 'Port Restricted Cone' for some valid pair in the port-fixed case
\* (stated at the states in which the classifier has been applied).
C3_EveryClassReturned ==
    Judged =>
    /\ \A c \in NatClasses :
          \E a \in ValidInputs, b \in ValidInputs : judgeNatType(a, b) = c
    /\ \E a \in ValidInputs, b \in ValidInputs :
          /\ PortFixedCase(a, b) \/ PortFixedCase(b, a)
          /\ judgeNatType(a, b) = "Port Restricted Cone"

\* the condition of rule 2 as the claim words it, for one ordering
SelfIpIsTargetIp(self, other) ==
    /\ self.ip = self.serve_ip
    /\ (other.ip # self.ip \/ other.port # self.port)

\* C4: for a valid pair that is not Full Cone, the result is 'Restricted
\* Cone' exactly when, for one ordering (self, other), self's public IP is
\* self's own target IP and other's endpoint differs from self's in IP or port.
C4_RestrictedIff ==
    (Judged /\ BothValid /\ ~SameEndpoint(info_1, info_2)) =>
        (natType = "Restricted Cone" <=>
            (SelfIpIsTargetIp(info_1, info_2) \/ SelfIpIsTargetIp(info_2, info_1)))

\* Restricted Cone by the second ordering only
C4_Witness ==
    /\ natType = "Restricted Cone"
    /\ BothValid
    /\ info_1.ip # info_1.serve_ip
    /\ info_2.ip = info_2.serve_ip

PairIsOwnTarget(i) == i.ip = i.serve_ip /\ i.port = i.serve_port

\* C5 as claimed: a valid pair with different public endpoints, neither of
\* whose (public IP, public port) pair equals its own target's (IP, port)
\* pair, is classified 'Symmetric'.
C5_SymmetricAsClaimed ==
    (/\ Judged /\ BothValid /\ ~SameEndpoint(info_1, info_2)
     /\ ~PairIsOwnTarget(info_1) /\ ~PairIsOwnTarget(info_2))
        => natType = "Symmetric"

\* C5 amended: a valid pair with different public endpoints in which neither
\* observation's public IP equals its own target's IP is classified 'Symmetric'.
C5_SymmetricAmended ==
    (/\ Judged /\ BothValid /\ ~SameEndpoint(info_1, info_2)
     /\ info_1.ip # info_1.serve_ip /\ info_2.ip # info_2.serve_ip)
        => natType = "Symmetric"

\* same public IP, different public ports, distinct targets
C5_Witness ==
    /\ natType = "Symmetric"
    /\ BothValid
    /\ info_1.ip = info_2.ip /\ info_1.port # info_2.port
    /\ info_1.serve_ip # info_2.serve_ip
    /\ info_1.ip # info_1.serve_ip /\ info_2.ip # info_2.serve_ip

\* C6: the result does not depend on the order of the arguments:
\* judgeNatType(info_1, info_2) = judgeNatType(info_2, info_1), for valid
\* and invalid arguments alike.
C6_OrderIndependent ==
    Judged => natType = judgeNatType(info_2, info_1)

\* two different valid observations of which only the second is
\* self-consistent with its target
C6_Witness ==
    /\ Judged
    /\ BothValid
    /\ info_1 # info_2
    /\ ~SameEndpoint(info_1, info_2)
    /\ info_1.ip # info_1.serve_ip
    /\ info_2.ip = info_2.serve_ip
    /\ natType = "Restricted Cone"


(***************************************************************************)
(* Strings as sequences of characters, for url.split(':').map(trim).       *)
(***************************************************************************)
STUN_SERVER_1 == <<
    "s", "t", "u", "n", ".", "c", "l", "o", "u", "d", "f", "l",
    "a", "r", "e", ".", "c", "o", "m", ":", "3", "4", "7", "8" >>

STUN_SERVER_2 == <<
    "s", "t", "u", "n", ".", "l", ".", "g", "o", "o", "g", "l",
    "e", ".", "c", "o", "m", ":", "1", "9", "3", "0", "2" >>

RECURSIVE Join(_)
Join(cs) == IF cs = <<>> THEN "" ELSE Head(cs) \o Join(Tail(cs))

\* String.prototype.split(sep) for a one-character separator
RECURSIVE SplitFrom(_, _, _, _)
SplitFrom(cs, sep, cur, acc) ==
    IF cs = <<>> THEN Append(acc, cur)
    ELSE IF Head(cs) = sep THEN SplitFrom(Tail(cs), sep, <<>>, Append(acc, cur))
    ELSE SplitFrom(Tail(cs), sep, Append(cur, Head(cs)), acc)

Split(cs, sep) == SplitFrom(cs, sep, <<>>, <<>>)

RECURSIVE TrimStart(_)
TrimStart(cs) ==
    IF cs # <<>> /\ Head(cs) = " " THEN TrimStart(Tail(cs)) ELSE cs

RECURSIVE TrimEnd(_)
TrimEnd(cs) ==
    IF cs # <<>> /\ cs[Len(cs)] = " " THEN TrimEnd(SubSeq(cs, 1, Len(cs) - 1)) ELSE cs

\* String.prototype.trim()
Trim(cs) == TrimEnd(TrimStart(cs))

\* element k of an array destructuring: undefined past the end
Destructure(parts, k) == IF k <= Len(parts) THEN Join(Trim(parts[k])) ELSE UNDEFINED

\* lines 101-102: the url each exchange is started with
Url == <<STUN_SERVER_1, STUN_SERVER_2>>

\* line 74: const [serveIp, servePort] = url.split(':').map((p) => p.trim())
ParseUrl(url) ==
    [serveIp |-> Destructure(Split(url, ":"), 1),
     servePort |-> Destructure(Split(url, ":"), 2)]

\* the target each exchange parses from its own url
Target == [i \in {1, 2} |-> ParseUrl(Url[i])]

(***************************************************************************)
(* getCandidateInfo (src/src/getNatType.ts:62-97): one STUN exchange.      *)
(***************************************************************************)
ResolveOverwrites(p, v) == Fulfilled(v)

\* resolve(v) of exchange i's promise: a settled promise keeps its value
Resolve(p, v) == IF p.state = "pending" THEN Fulfilled(v) ELSE p

\* a number | null slot of an RTCIceCandidate
Num(n) == [number |-> n]

\* a string | null slot of an RTCIceCandidate
NULLSTR == "<null>"

\* e.candidate of an icecandidate event: null at the end of gathering, else a
\* candidate of some type whose address and port may be null
Candidates ==
    [type : {"host", "srflx", "relay"},
     address : Ips \cup {NULLSTR},
     port : {Num(n) : n \in PortNumbers} \cup {NULL}]

CandidateEvents == Candidates \cup {NULL}

\* line 76: e.candidate.address || ''
AddressOrEmpty(address) == IF address \in {NULLSTR, ""} THEN "" ELSE address

\* line 77: e.candidate.port?.toString()
PortToString(port) == IF port = NULL THEN UNDEFINED ELSE toString(port.number)

MakeCandidateInfoSelfTarget(c, i) ==
    [ip |-> AddressOrEmpty(c.address),
     port |-> PortToString(c.port),
     serve_ip |-> AddressOrEmpty(c.address),
     serve_port |-> Target[i].servePort]

\* lines 75-80: the CandidateInfo exchange i builds from a srflx candidate
MakeCandidateInfo(c, i) ==
    [ip |-> AddressOrEmpty(c.address),
     port |-> PortToString(c.port),
     serve_ip |-> Target[i].serveIp,
     serve_port |-> Target[i].servePort]

IsAnyCandidate(e) == e # NULL

\* line 72: e.candidate?.type === 'srflx'
IsSrflx(e) == e # NULL /\ e.type = "srflx"

\* lines 63-96, the executor of `new Promise`, run synchronously by the call
\* getCandidateInfo(url).  The constructor (line 64) or createDataChannel
\* (line 66) may throw, which rejects the promise before the handler, the
\* timer and the offer exist; otherwise the exchange is under way.
Executor(i, outcome) ==
    /\ conn' = [conn EXCEPT ![i] = IF outcome = "ctorThrows" THEN "none" ELSE "open"]
    /\ promise' = [promise EXCEPT ![i] = IF outcome = "ok" THEN PENDING ELSE REJECTED]
    /\ timer' = [timer EXCEPT ![i] = IF outcome = "ok" THEN "armed" ELSE "unset"]
    /\ nego' = [nego EXCEPT ![i] = IF outcome = "ok" THEN "createOffer" ELSE "none"]

ExecutorOutcomes == {"ok", "ctorThrows", "channelThrows"}

\* lines 71-84: pc.onicecandidate.  Events are delivered once
\* setLocalDescription has succeeded; the platform may still deliver one that
\* was queued before the connection was closed.  The local candidateInfo
\* (line 68) is written here and read only by the resolve of the same call,
\* so it is the value resolved with and no variable of the model.
OnIceCandidate(i) ==
    /\ nego[i] = "gathering"
    /\ events[i] < MaxEvents
    /\ \E e \in CandidateEvents :
          /\ IF IsSrflx(e)
             THEN /\ conn' = [conn EXCEPT ![i] = "closed"]
                  /\ promise' = [promise EXCEPT ![i] = Resolve(@, MakeCandidateInfo(e, i))]
             ELSE UNCHANGED <<conn, promise>>
          /\ firstSrflx' = [firstSrflx EXCEPT ![i] =
                IF e # NULL /\ e.type = "srflx" /\ @ = NULL
                THEN [address |-> e.address, port |-> e.port]
                ELSE @]
    /\ events' = [events EXCEPT ![i] = @ + 1]
    /\ UNCHANGED <<pc, info1, info2, result, timer, nego>>
    /\ UNCHANGED <<judgeVars, legacyVars>>

TimeoutWithoutResolve(i) ==
    /\ timer[i] = "armed"
    /\ timer' = [timer EXCEPT ![i] = "fired"]
    /\ conn' = [conn EXCEPT ![i] = "closed"]
    /\ UNCHANGED <<pc, info1, info2, result, promise, nego, events>>
    /\ UNCHANGED <<judgeVars, legacyVars, firstSrflx>>

\* lines 87-90: the setTimeout callback
Timeout(i) ==
    /\ timer[i] = "armed"
    /\ timer' = [timer EXCEPT ![i] = "fired"]
    /\ conn' = [conn EXCEPT ![i] = "closed"]
    /\ promise' = [promise EXCEPT ![i] = Resolve(@, NULL)]
    /\ UNCHANGED <<pc, info1, info2, result, nego, events>>
    /\ UNCHANGED <<judgeVars, legacyVars, firstSrflx>>

\* line 93: pc.createOffer() settles.  It is fulfilled only on a connection
\* that is still open, and then line 94 calls setLocalDescription; when it
\* rejects, line 95 resolves the exchange with null.
CreateOfferSettles(i) ==
    /\ nego[i] = "createOffer"
    /\ \/ /\ conn[i] = "open"
          /\ nego' = [nego EXCEPT ![i] = "setLocalDescription"]
          /\ UNCHANGED promise
       \/ /\ nego' = [nego EXCEPT ![i] = "failed"]
          /\ promise' = [promise EXCEPT ![i] = Resolve(@, NULL)]
    /\ UNCHANGED <<pc, info1, info2, result, conn, timer, events>>
    /\ UNCHANGED <<judgeVars, legacyVars, firstSrflx>>

\* line 94: pc.setLocalDescription(offer) settles.  Fulfilled (on an open
\* connection) it starts candidate gathering; rejected, line 95 resolves the
\* exchange with null.
SetLocalDescriptionSettles(i) ==
    /\ nego[i] = "setLocalDescription"
    /\ \/ /\ conn[i] = "open"
          /\ nego' = [nego EXCEPT ![i] = "gathering"]
          /\ UNCHANGED promise
       \/ /\ nego' = [nego EXCEPT ![i] = "failed"]
          /\ promise' = [promise EXCEPT ![i] = Resolve(@, NULL)]
    /\ UNCHANGED <<pc, info1, info2, result, conn, timer, events>>
    /\ UNCHANGED <<judgeVars, legacyVars, firstSrflx>>

(***************************************************************************)
(* getNatType (src/src/getNatType.ts:58-116)                               *)
(***************************************************************************)
UNKNOWN_RESULT == [address |-> "", natType |-> "Unknown"]

\* line 111: info1.ip || ''
Address(info) == IF Falsy(info.ip) THEN "" ELSE info.ip

ReturnValueSecondAddress(i1, i2) ==
    IF i1 = NULL \/ i2 = NULL THEN UNKNOWN_RESULT
    ELSE [address |-> Address(i2), natType |-> judgeNatType(i1, i2)]

\* lines 104-111: what the try block returns for the two awaited values
ReturnValue(i1, i2) ==
    IF i1 = NULL \/ i2 = NULL THEN UNKNOWN_RESULT
    ELSE [address |-> Address(i1), natType |-> judgeNatType(i1, i2)]

CatchRethrows == REJECTED

\* lines 112-115: the catch block turns a rejected await into the Unknown result
Catch == Fulfilled(UNKNOWN_RESULT)

\* line 101 up to the first await: getCandidateInfo(STUN_SERVER_1) is called
Call ==
    /\ pc = "start"
    /\ \E outcome \in ExecutorOutcomes : Executor(1, outcome)
    /\ pc' = "await1"
    /\ UNCHANGED <<info1, info2, result, events>>
    /\ UNCHANGED <<judgeVars, legacyVars, firstSrflx>>

Resume1ShortCircuit ==
    /\ pc = "await1"
    /\ Settled(promise[1])
    /\ IF promise[1].state = "rejected" \/ promise[1].value = NULL
       THEN /\ result' = Catch
            /\ pc' = "done"
            /\ UNCHANGED <<info1, conn, promise, timer, nego>>
       ELSE /\ info1' = promise[1].value
            /\ \E outcome \in ExecutorOutcomes : Executor(2, outcome)
            /\ pc' = "await2"
            /\ UNCHANGED result
    /\ UNCHANGED <<info2, events>>
    /\ UNCHANGED <<judgeVars, legacyVars, firstSrflx>>

\* lines 101-102: the first await resumes; info1 is set and
\* getCandidateInfo(STUN_SERVER_2) is called, or the rejection is caught
Resume1 ==
    /\ pc = "await1"
    /\ Settled(promise[1])
    /\ IF promise[1].state = "rejected"
       THEN /\ result' = Catch
            /\ pc' = "done"
            /\ UNCHANGED <<info1, conn, promise, timer, nego>>
       ELSE /\ info1' = promise[1].value
            /\ \E outcome \in ExecutorOutcomes : Executor(2, outcome)
            /\ pc' = "await2"
            /\ UNCHANGED result
    /\ UNCHANGED <<info2, events>>
    /\ UNCHANGED <<judgeVars, legacyVars, firstSrflx>>

\* lines 102-115: the second await resumes and getNatType returns
Resume2 ==
    /\ pc = "await2"
    /\ Settled(promise[2])
    /\ IF promise[2].state = "rejected"
       THEN /\ result' = Catch
            /\ UNCHANGED info2
       ELSE /\ info2' = promise[2].value
            /\ result' = Fulfilled(ReturnValue(info1, promise[2].value))
    /\ pc' = "done"
    /\ UNCHANGED <<info1, conn, promise, timer, nego, events>>
    /\ UNCHANGED <<judgeVars, legacyVars, firstSrflx>>

Init ==
    /\ info_1 = NULL
    /\ info_2 = NULL
    /\ natType = "none"
    /\ AsyncInit
    /\ LegacyIdle

Next ==
    \/ Call
    \/ Resume1
    \/ Resume2
    \/ \E i \in Exchanges : OnIceCandidate(i)
    \/ \E i \in Exchanges : Timeout(i)
    \/ \E i \in Exchanges : CreateOfferSettles(i)
    \/ \E i \in Exchanges : SetLocalDescriptionSettles(i)

Spec == Init /\ [][Next]_vars

\* The event loop runs every due timer callback and every continuation of a
\* settled await; nothing is assumed of the network or the platform
\* (candidates and the settling of the offer may never come).
Fairness ==
    /\ WF_vars(Resume1)
    /\ WF_vars(Resume2)
    /\ \A i \in Exchanges : WF_vars(Timeout(i))

FairSpec == Spec /\ Fairness

(***************************************************************************)
(* Claims about getNatType, checked under Spec and FairSpec.               *)
(***************************************************************************)
Done == pc = "done"

\* exchange i resolved to v
ResolvedTo(i, v) == promise[i] = Fulfilled(v)

\* exchange i resolved to null or to an observation with a missing field
BadCollection(i) ==
    promise[i].state = "fulfilled" /\ ~Valid(promise[i].value)

\* exchange i resolved to an observation with all four fields
GoodCollection(i) ==
    promise[i].state = "fulfilled" /\ Valid(promise[i].value)

\* C7: whenever one of the two collections resolved to null or to an invalid
\* observation, getNatType returns exactly { address: '', natType: 'Unknown' }.
C7_EmptyAddressOnBadCollection ==
    (Done /\ \E i \in Exchanges : BadCollection(i)) => result = Fulfilled(UNKNOWN_RESULT)

\* C8: when both collections resolved to valid observations, getNatType
\* returns the first observation's public IP as address and
\* judgeNatType(observation 1, observation 2) as natType.
C8_AddressOfFirst ==
    (Done /\ GoodCollection(1) /\ GoodCollection(2)) =>
        result = Fulfilled([address |-> promise[1].value.ip,
                            natType |-> judgeNatType(promise[1].value, promise[2].value)])

\* both observations valid, with different public IPs
C8_Witness ==
    /\ Done
    /\ GoodCollection(1) /\ GoodCollection(2)
    /\ promise[1].value.ip # promise[2].value.ip
    /\ result.state = "fulfilled"

\* a run in which an exchange threw, failed to negotiate or resolved to null
FailureRun ==
    \E i \in Exchanges :
        \/ promise[i] = REJECTED
        \/ ResolvedTo(i, NULL)
        \/ nego[i] = "failed"

\* C9: the promise of getNatType is never rejected; once getNatType is done
\* it is fulfilled, and in every failure run (an exception in the executor, a
\* rejected createOffer or setLocalDescription, no candidate, a timeout) with
\* { address: '', natType: 'Unknown' }.
C9_NeverRejects ==
    /\ result.state # "rejected"
    /\ Done => result.state = "fulfilled"
    /\ (Done /\ FailureRun) => result = Fulfilled(UNKNOWN_RESULT)

\* the second exchange threw in its executor after the first one had
\* delivered a valid observation
C9_Witness ==
    /\ Done
    /\ GoodCollection(1)
    /\ promise[2] = REJECTED
    /\ result = Fulfilled(UNKNOWN_RESULT)

\* exchange i is under way: its executor ran to the end and its promise is
\* not settled yet
Started(i) == promise[i].state = "pending"

\* exchange i resolved, to an observation or to null
Resolved(i) ==
    /\ promise[i].state = "fulfilled"
    /\ \/ promise[i].value = NULL
       \/ DOMAIN promise[i].value = {"ip", "port", "serve_ip", "serve_port"}

\* C10: every exchange that was started eventually resolves, to an
\* observation or to null, and every call of getNatType eventually returns.
C10_EventuallyResolves ==
    /\ \A i \in Exchanges : Started(i) ~> Resolved(i)
    /\ (pc # "start") ~> Done

\* getNatType returned after the first exchange, which negotiated and got no
\* srflx candidate in time, was resolved to null by its timeout
C10_Witness ==
    /\ Done
    /\ ResolvedTo(1, NULL)
    /\ timer[1] = "fired"
    /\ nego[1] = "gathering"

\* C11: whenever an exchange has resolved (srflx candidate, timeout or
\* negotiation error), its peer connection has been closed.
C11_ClosedWhenResolved ==
    \A i \in Exchanges : promise[i].state = "fulfilled" => conn[i] = "closed"

\* C12: the outcome of an exchange is fixed by its first terminal event: a
\* settled promise never changes its value (a late srflx candidate after a
\* null, a timeout after an observation), the caller holds that value, and
\* a timer that fired never fires again.
C12_FirstOutcomeStands ==
    [][\A i \in Exchanges :
          /\ Settled(promise[i]) => promise'[i] = promise[i]
          /\ timer[i] = "fired" => timer'[i] = "fired"
          /\ (pc' \in {"await2", "done"} /\ promise'[1].state = "fulfilled")
                => info1' = promise'[1].value
          /\ (pc' = "done" /\ promise'[2].state = "fulfilled")
                => info2' = promise'[2].value]_vars

\* exchange 1 was resolved to null and a srflx candidate came afterwards;
\* exchange 2 was resolved to an observation and its timer fired afterwards
C12_Witness ==
    /\ Done
    /\ ResolvedTo(1, NULL) /\ firstSrflx[1] # NULL /\ info1 = NULL
    /\ promise[2].state = "fulfilled" /\ promise[2].value # NULL
    /\ timer[2] = "fired"
    /\ info2 = promise[2].value

\* the host names and ports of the two hardcoded servers, as text
ServerHost == <<"stun.cloudflare.com", "stun.l.google.com">>
ServerPort == <<"3478", "19302">>

\* the decimal text of the port numbers of the model
PortText(n) ==
    CASE n = 5000 -> "5000"
      [] n = 6001 -> "6001"
      [] n = 3478 -> "3478"
      [] n = 19302 -> "19302"

\* the observation the claims expect of srflx candidate c in exchange i
ExpectedObservation(c, i) ==
    [ip |-> IF c.address = NULLSTR THEN "" ELSE c.address,
     port |-> IF c.port = NULL THEN UNDEFINED ELSE PortText(c.port.number),
     serve_ip |-> ServerHost[i],
     serve_port |-> ServerPort[i]]

\* exchange i resolved to an observation
Observed(i) == promise[i].state = "fulfilled" /\ promise[i].value # NULL

\* C13: an exchange resolves to an observation only through a srflx
\* candidate; the observation carries the address and port of the first srflx
\* candidate delivered and the host and port of the exchange's own server;
\* an event that is not a srflx candidate leaves the exchange as it was.
C13_FirstSrflxOnly ==
    /\ [](\A i \in Exchanges :
            Observed(i) =>
                /\ firstSrflx[i] # NULL
                /\ promise[i].value = ExpectedObservation(firstSrflx[i], i))
    /\ [][\A i \in Exchanges :
            (events'[i] # events[i] /\ firstSrflx'[i] = NULL)
                => (promise'[i] = promise[i] /\ conn'[i] = conn[i])]_vars

\* exchange 1 resolved to the observation of its srflx candidate, and
\* exchange 2 is still pending after an event that was no srflx candidate
C13_Witness ==
    /\ Observed(1)
    /\ promise[1].value.serve_ip = "stun.cloudflare.com"
    /\ events[2] > 0 /\ firstSrflx[2] = NULL
    /\ promise[2].state = "pending"

\* C14: every peer connection that was created is eventually closed.
C14_EveryConnectionClosed ==
    \A i \in Exchanges : (conn[i] = "open") ~> (conn[i] = "closed")

\* the safety half of C15: the second connection exists only once the first
\* exchange has resolved, and the two exchanges are never pending together
Sequential ==
    /\ (conn[2] # "none" \/ promise[2].state # "none") => promise[1].state = "fulfilled"
    /\ ~(promise[1].state = "pending" /\ promise[2].state = "pending")

\* C15 as claimed: the exchanges run one after the other, and whenever
\* getNatType has returned, the second exchange had been started.
C15_SecondAlwaysStarted ==
    /\ Sequential
    /\ Done => promise[2].state # "none"

\* C15 amended: the exchanges run one after the other, and whenever
\* getNatType has returned after the first exchange resolved (to an
\* observation or to null), the second exchange had been started.
C15_SecondStartedAfterResolve ==
    /\ Sequential
    /\ (Done /\ promise[1].state = "fulfilled") => promise[2].state # "none"

\* the first exchange resolved to null and the second one still ran and
\* delivered an observation
C15_Witness ==
    /\ Done
    /\ ResolvedTo(1, NULL)
    /\ Observed(2)

\* no srflx address seen by the classifier is one of the server host names
NoHostNameAddress ==
    \A i \in Exchanges :
        Observed(i) => promise[i].value.ip \notin {ServerHost[1], ServerHost[2]}

\* C16: the observations' targets are the host names and port strings of
\* the two hardcoded servers, and, no srflx address being one of these host
\* names, getNatType returns only 'Full Cone', 'Symmetric' or 'Unknown'.
C16_NoConeRestriction ==
    /\ \A i \in Exchanges :
          Observed(i) => /\ promise[i].value.serve_ip = ServerHost[i]
                         /\ promise[i].value.serve_port = ServerPort[i]
    /\ (result.state = "fulfilled" /\ NoHostNameAddress)
          => result.value.natType \in {"Full Cone", "Symmetric", "Unknown"}

\* two valid observations with the same public IP and different public
\* ports: neither Full Cone nor Unknown
C16_Witness ==
    /\ Done
    /\ GoodCollection(1) /\ GoodCollection(2)
    /\ promise[1].value.ip = promise[2].value.ip
    /\ promise[1].value.port # promise[2].value.port
    /\ result = Fulfilled([address |-> promise[1].value.ip, natType |-> "Symmetric"])

(***************************************************************************)
(* The earlier classifier (src/unnamed/part_000:2-27) and LegacySpec.      *)
(***************************************************************************)
\* an RTCIceCandidate as the earlier classifier reads it: address and port
LegacyCandidates ==
    [address : Ips \cup {NULLSTR}, port : {Num(n) : n \in PortNumbers} \cup {NULL}]

\* the non-empty candidate lists getCandidates resolves with (lines 53-57),
\* of one or two candidates
CandidateLists ==
    {<<c>> : c \in LegacyCandidates}
        \cup {<<c, d>> : c \in LegacyCandidates, d \in LegacyCandidates}

\* lines 10, 15, 20: the conditions of the three if statements
SameAddressSamePort(c1, c2) == c1.address = c2.address /\ c1.port = c2.port
SameAddressOtherPort(c1, c2) == c1.address = c2.address /\ c1.port # c2.port

judgeNatTypeLegacyRestrictedLast(cs1, cs2) ==
    LET candidate_1 == cs1[1]
        candidate_2 == cs2[1]
        afterFullCone ==
            IF SameAddressSamePort(candidate_1, candidate_2) THEN "Full Cone" ELSE "Symmetric"
        afterPortRestricted ==
            IF SameAddressOtherPort(candidate_1, candidate_2)
            THEN "Port Restricted Cone" ELSE afterFullCone
    IN  IF SameAddressOtherPort(candidate_1, candidate_2)
        THEN "Restricted Cone" ELSE afterPortRestricted

\* lines 2-27: natType starts as 'Symmetric' and each if that holds
\* overwrites it, in the order of the source
judgeNatTypeLegacy(cs1, cs2) ==
    LET candidate_1 == cs1[1]
        candidate_2 == cs2[1]
        afterFullCone ==
            IF SameAddressSamePort(candidate_1, candidate_2) THEN "Full Cone" ELSE "Symmetric"
        afterRestricted ==
            IF SameAddressOtherPort(candidate_1, candidate_2)
            THEN "Restricted Cone" ELSE afterFullCone
    IN  IF SameAddressOtherPort(candidate_1, candidate_2)
        THEN "Port Restricted Cone" ELSE afterRestricted

LegacyInit ==
    /\ candidates_1 \in CandidateLists
    /\ candidates_2 \in CandidateLists
    /\ legacyNatType = "none"
    /\ info_1 = NULL
    /\ info_2 = NULL
    /\ natType = "none"
    /\ AsyncInit

\* one call judgeNatType(candidates_1, candidates_2) of the earlier variant
LegacyJudge ==
    /\ legacyNatType = "none"
    /\ legacyNatType' = judgeNatTypeLegacy(candidates_1, candidates_2)
    /\ UNCHANGED <<candidates_1, candidates_2>>
    /\ UNCHANGED <<judgeVars, asyncVars>>

LegacyNext == LegacyJudge

LegacySpec == LegacyInit /\ [][LegacyNext]_vars

====
